---- MODULE Spec2Model ----
(***************************************************************************)
(* Kupac-Artikl matrix generator (src/app.py).                             *)
(*                                                                         *)
(* One run of the "Generiraj matricu" button: create_sparse_matrix on the  *)
(* loaded frame, then generate_excel_chunked (statistics, Summary sheet,   *)
(* chunked construction of the matrix, concat, Matrica sheet), then the    *)
(* download button.  The frame is already projected on the two selected    *)
(* columns: a row is <<kupac value, artikl value>>.                        *)
(***************************************************************************)
EXTENDS Integers, Sequences, FiniteSets, TLC

(***************************************************************************)
(* Raw cell values.  A value is a missing cell (NaN), a number or a text.  *)
(* v indexes LabelText, the table of the texts in lexicographic order; a   *)
(* number n and the text of its digits share the index, so Num(1) is the   *)
(* number 1001 and Text(1) is the text "1001".                             *)
(***************************************************************************)
LabelText ==
    <<"1001", "1002", "A", "B", "C",
      "K01", "K02", "K03", "K04", "K05", "K06",
      "K07", "K08", "K09", "K10", "K11", "K12">>

NaN == [t |-> "nan", v |-> 0]
Num(n) == [t |-> "int", v |-> n]
Text(n) == [t |-> "str", v |-> n]

\* pd.isna on one cell
IsNull(x) == x.t = "nan"

\* Python equality of two cells as used by hashing (set, drop_duplicates,
\* Categorical): a number never equals a text
SameValue(x, y) == x = y

kupac_col == "Kupac"
artikl_col == "Artikl"

----------------------------------------------------------------------------
(* Bounds of the model *)

MaxRecords == 3
MaxChunk == 2

KupacValues == {NaN, Num(1), Text(1), Text(2)}
ArtiklValues == {NaN, Text(3), Text(4)}

RECURSIVE SeqsUpTo(_, _)
SeqsUpTo(S, n) ==
    IF n = 0 THEN {<<>>}
    ELSE LET shorter == SeqsUpTo(S, n - 1)
         IN  shorter \cup {Append(s, x) : s \in {r \in shorter : Len(r) = n - 1}, x \in S}

SmallFrames == SeqsUpTo(KupacValues \X ArtiklValues, MaxRecords)

\* One frame with more than ten kupci: K01..K04 bought A, B and C, K05..K08
\* bought A and B, K09..K11 bought A; the rows come artikl by artikl, kupci
\* from the last to the first.
BigKupci == 11
Bought(k, a) ==
    \/ a = 3
    \/ a = 4 /\ k <= 8
    \/ a = 5 /\ k <= 4
BigRow(n) ==
    LET a == 3 + ((n - 1) \div BigKupci)
        k == BigKupci - ((n - 1) % BigKupci)
    IN  <<Text(5 + k), IF Bought(k, a) THEN Text(a) ELSE NaN>>
BigFrameAll == [n \in 1..(3 * BigKupci) |-> BigRow(n)]
BigFrame == SelectSeq(BigFrameAll, LAMBDA r : ~IsNull(r[2]))

Frames == SmallFrames \cup {BigFrame}

----------------------------------------------------------------------------
(* pandas / Python helpers *)

\* Order of pd.Categorical's categories (factorize(sort=True) -> safe_sort):
\* numbers ascending, then texts in lexicographic order
Less(x, y) ==
    \/ x.t = "int" /\ y.t = "str"
    \/ x.t = y.t /\ x.v < y.v

RECURSIVE SortLabels(_)
SortLabels(S) ==
    IF S = {} THEN <<>>
    ELSE LET m == CHOOSE x \in S : \A y \in S \ {x} : Less(x, y)
         IN  <<m>> \o SortLabels(S \ {m})

Range(s) == {s[n] : n \in DOMAIN s}

\* df[col]
Column(frame, c) == [n \in DOMAIN frame |-> frame[n][c]]

\* pd.Categorical(col).categories: the distinct non-missing values, sorted
Categories(col) == SortLabels({x \in Range(col) : ~IsNull(x)})

\* DataFrame.drop_duplicates(): the first occurrence of every row is kept, in
\* order; missing cells compare equal to each other and are kept
RECURSIVE DropDuplicates(_)
DropDuplicates(frame) ==
    IF frame = <<>> THEN <<>>
    ELSE LET n == Len(frame)
             before == DropDuplicates(SubSeq(frame, 1, n - 1))
         IN  IF \E m \in 1..(n - 1) :
                    SameValue(frame[m][1], frame[n][1]) /\ SameValue(frame[m][2], frame[n][2])
             THEN before
             ELSE Append(before, frame[n])

\* Series.value_counts() without its order: value -> number of rows, missing
\* values dropped (dropna=True)
ValueCounts(col) ==
    [x \in {y \in Range(col) : ~IsNull(y)} |->
        Cardinality({n \in DOMAIN col : col[n] = x})]

RECURSIVE SumOf(_)
SumOf(f) ==
    IF DOMAIN f = {} THEN 0
    ELSE LET x == CHOOSE y \in DOMAIN f : TRUE
         IN  f[x] + SumOf([y \in DOMAIN f \ {x} |-> f[y]])


\* RankOrders with the sort direction inverted (ascending=True): lowest count first
RECURSIVE RankOrdersAscending(_)
RankOrdersAscending(counts) ==
    IF DOMAIN counts = {} THEN {<<>>}
    ELSE LET low == {x \in DOMAIN counts : \A y \in DOMAIN counts : counts[x] <= counts[y]}
         IN  UNION {{<<<<x, counts[x]>>>> \o r :
                        r \in RankOrdersAscending([y \in DOMAIN counts \ {x} |-> counts[y]])} :
                    x \in low}

\* The orders Series.value_counts() may give its entries <<value, count>>:
\* count descending.  The sort reads the counts alone, is not a stable one
\* (sort_values' default quicksort) and has no second key, so the order among
\* values of equal count differs between builds: every such order is allowed.
RECURSIVE RankOrders(_)
RankOrders(counts) ==
    IF DOMAIN counts = {} THEN {<<>>}
    ELSE LET top == {x \in DOMAIN counts : \A y \in DOMAIN counts : counts[y] <= counts[x]}
         IN  UNION {{<<<<x, counts[x]>>>> \o r :
                        r \in RankOrders([y \in DOMAIN counts \ {x} |-> counts[y]])} :
                    x \in top}

\* Series.head(n)
HeadN(s, n) == SubSeq(s, 1, IF Len(s) < n THEN Len(s) ELSE n)

\* Python slice s[lo:hi] of a list, lo and hi counted from 0
Slice(s, lo, hi) == SubSeq(s, lo + 1, IF hi < Len(s) THEN hi ELSE Len(s))

\* f'{num/den:.2f}' and f'{num/den:.1f}' as an integer number of units of
\* 1/scale: round to nearest, ties to even
RoundDiv(num, den) ==
    LET q == num \div den
        r == num % den
    IN  IF 2 * r > den \/ (2 * r = den /\ q % 2 = 1) THEN q + 1 ELSE q

TopK == 10

----------------------------------------------------------------------------
(* create_sparse_matrix *)

create_sparse_matrix(frame) ==
    LET kupci == Categories(Column(frame, 1))
        artikli == Categories(Column(frame, 2))
        unique_pairs == DropDuplicates(frame)
    IN  [kupci |-> kupci,
         artikli |-> artikli,
         unique_pairs |-> unique_pairs,
         num_kupaca |-> Len(kupci),
         num_artikala |-> Len(artikli),
         true_count |-> Len(unique_pairs)]

NoSparseData ==
    [kupci |-> <<>>, artikli |-> <<>>, unique_pairs |-> <<>>,
     num_kupaca |-> 0, num_artikala |-> 0, true_count |-> 0]

----------------------------------------------------------------------------
(* generate_excel_chunked, piece by piece *)

\* set(zip(unique_pairs[kupac_col], unique_pairs[artikl_col]))
PairSetOf(unique_pairs) == {<<r[1], r[2]>> : r \in Range(unique_pairs)}

\* MatrixRow with the tuple built the wrong way round: (artikl, kupac)
MatrixRowSwapped(kupac, artikli, pairs) ==
    [label |-> kupac,
     cells |-> [j \in 1..Len(artikli) |-> <<artikli[j], kupac>> \in pairs]]

\* One row of the matrix: the kupac and, per artikl, (kupac, artikl) in pair_set
MatrixRow(kupac, artikli, pairs) ==
    [label |-> kupac,
     cells |-> [j \in 1..Len(artikli) |-> <<kupac, artikli[j]>> \in pairs]]

\* ChunkKupci with a slice one too long: kupci[i:i + chunk_size + 1]
ChunkKupciOverlap(kupci, lo, size) == Slice(kupci, lo, lo + size + 1)

\* chunk_kupci = kupci[i:i + chunk_size]
ChunkKupci(kupci, lo, size) == Slice(kupci, lo, lo + size)

\* chunk_data of one pass of the outer loop
ChunkData(kupci, artikli, pairs, lo, size) ==
    LET chunk_kupci == ChunkKupci(kupci, lo, size)
    IN  [n \in 1..Len(chunk_kupci) |-> MatrixRow(chunk_kupci[n], artikli, pairs)]

\* pd.concat(all_chunks, ignore_index=True)
RECURSIVE Concat(_)
Concat(chunks) ==
    IF chunks = <<>> THEN <<>>
    ELSE Concat(SubSeq(chunks, 1, Len(chunks) - 1)) \o chunks[Len(chunks)]

\* The values of the Summary sheet that are numbers
SummaryData(sd, kc, ac, df_len) ==
    LET total_celija == sd.num_kupaca * sd.num_artikala
    IN  [df_len |-> df_len,
         num_kupaca |-> sd.num_kupaca,
         num_artikala |-> sd.num_artikala,
         total_celija |-> total_celija,
         true_count |-> sd.true_count,
         false_count |-> total_celija - sd.true_count,
         popunjenost |-> RoundDiv(100 * 100 * sd.true_count, total_celija),
         prosjek_artikala |-> RoundDiv(10 * SumOf(kc), Cardinality(DOMAIN kc)),
         prosjek_kupaca |-> RoundDiv(10 * SumOf(ac), Cardinality(DOMAIN ac))]

----------------------------------------------------------------------------
(* The run *)

VARIABLES
    df,             \* the loaded frame, projected on the two selected columns
    chunk_size,     \* generate_excel_chunked's chunk_size
    pc,             \* where the run is
    sparse_data,    \* what create_sparse_matrix returned
    pair_set,       \* generate_excel_chunked's locals ...
    kupci_counts,
    artikli_counts,
    top_kupci,
    top_artikli,
    i,              \* the outer loop's index
    all_chunks,
    matrix_df,
    summary_sheet,  \* the sheets handed to the writer: <<>> while not written
    matrica_sheet,
    error,          \* the exception that ended the run, "" if none
    download        \* TRUE once st.download_button offers the file

vars ==
    <<df, chunk_size, pc, sparse_data, pair_set, kupci_counts, artikli_counts,
      top_kupci, top_artikli, i, all_chunks, matrix_df, summary_sheet,
      matrica_sheet, error, download>>

Init ==
    /\ df \in Frames
    /\ chunk_size \in 1..MaxChunk
    /\ pc = "button"
    /\ sparse_data = NoSparseData
    /\ pair_set = {}
    /\ kupci_counts = <<>>
    /\ artikli_counts = <<>>
    /\ top_kupci = <<>>
    /\ top_artikli = <<>>
    /\ i = 0
    /\ all_chunks = <<>>
    /\ matrix_df = <<>>
    /\ summary_sheet = <<>>
    /\ matrica_sheet = <<>>
    /\ error = ""
    /\ download = FALSE

\* sparse_data = create_sparse_matrix(df, kupac_col, artikl_col)
CreateSparseMatrix ==
    /\ pc = "button"
    /\ sparse_data' = create_sparse_matrix(df)
    /\ pc' = "stats"
    /\ UNCHANGED <<df, chunk_size, pair_set, kupci_counts, artikli_counts, top_kupci,
                   top_artikli, i, all_chunks, matrix_df, summary_sheet,
                   matrica_sheet, error, download>>

\* pair_set, the two value_counts and the two head(10)
ComputeStats ==
    /\ pc = "stats"
    /\ pair_set' = PairSetOf(sparse_data.unique_pairs)
    /\ kupci_counts' = ValueCounts(Column(sparse_data.unique_pairs, 1))
    /\ artikli_counts' = ValueCounts(Column(sparse_data.unique_pairs, 2))
    /\ \E ranked \in RankOrders(kupci_counts') : top_kupci' = HeadN(ranked, TopK)
    /\ \E ranked \in RankOrders(artikli_counts') : top_artikli' = HeadN(ranked, TopK)
    /\ pc' = "summary"
    /\ UNCHANGED <<df, chunk_size, sparse_data, i, all_chunks, matrix_df,
                   summary_sheet, matrica_sheet, error, download>>

\* The Summary sheet: summary_data and the three to_excel calls
WriteSummary ==
    /\ pc = "summary"
    /\ sparse_data.num_kupaca * sparse_data.num_artikala # 0
    /\ summary_sheet' =
         <<[data |-> SummaryData(sparse_data, kupci_counts, artikli_counts, Len(df)),
            top_kupci |-> top_kupci,
            top_artikli |-> top_artikli]>>
    /\ all_chunks' = <<>>
    /\ i' = 0
    /\ pc' = "chunks"
    /\ UNCHANGED <<df, chunk_size, sparse_data, pair_set, kupci_counts, artikli_counts,
                   top_kupci, top_artikli, matrix_df, matrica_sheet, error, download>>

\* 100*true_count/total_celija with total_celija = 0: ZeroDivisionError while
\* summary_data is built, before any to_excel call
SummaryDivisionByZero ==
    /\ pc = "summary"
    /\ sparse_data.num_kupaca * sparse_data.num_artikala = 0
    /\ error' = "ZeroDivisionError"
    /\ pc' = "failed"
    /\ UNCHANGED <<df, chunk_size, sparse_data, pair_set, kupci_counts, artikli_counts,
                   top_kupci, top_artikli, i, all_chunks, matrix_df, summary_sheet,
                   matrica_sheet, download>>

\* One pass of "for i in range(0, num_kupaca, chunk_size)"
BuildChunk ==
    /\ pc = "chunks"
    /\ i < sparse_data.num_kupaca
    /\ all_chunks' =
         Append(all_chunks,
                ChunkData(sparse_data.kupci, sparse_data.artikli, pair_set, i, chunk_size))
    /\ i' = i + chunk_size
    /\ UNCHANGED <<df, chunk_size, pc, sparse_data, pair_set, kupci_counts,
                   artikli_counts, top_kupci, top_artikli, matrix_df, summary_sheet,
                   matrica_sheet, error, download>>

\* After the loop: concat, set_index, to_excel(sheet_name='Matrica')
CombineAndWrite ==
    /\ pc = "chunks"
    /\ i >= sparse_data.num_kupaca
    /\ matrix_df' = Concat(all_chunks)
    /\ matrica_sheet' =
         <<[axis |-> kupac_col, labels |-> sparse_data.artikli, rows |-> matrix_df']>>
    /\ pc' = "written"
    /\ UNCHANGED <<df, chunk_size, sparse_data, pair_set, kupci_counts, artikli_counts,
                   top_kupci, top_artikli, i, all_chunks, summary_sheet, error,
                   download>>

\* del all_chunks, matrix_df; the writer is closed and the function returns
Return ==
    /\ pc = "written"
    /\ all_chunks' = <<>>
    /\ matrix_df' = <<>>
    /\ pc' = "returned"
    /\ UNCHANGED <<df, chunk_size, sparse_data, pair_set, kupci_counts, artikli_counts,
                   top_kupci, top_artikli, i, summary_sheet, matrica_sheet, error,
                   download>>

\* The results are shown and st.download_button offers output.getvalue()
Download ==
    /\ pc = "returned"
    /\ download' = TRUE
    /\ pc' = "done"
    /\ UNCHANGED <<df, chunk_size, sparse_data, pair_set, kupci_counts, artikli_counts,
                   top_kupci, top_artikli, i, all_chunks, matrix_df, summary_sheet,
                   matrica_sheet, error>>

Next ==
    \/ CreateSparseMatrix
    \/ ComputeStats
    \/ WriteSummary
    \/ SummaryDivisionByZero
    \/ BuildChunk
    \/ CombineAndWrite
    \/ Return
    \/ Download

Spec == Init /\ [][Next]_vars

----------------------------------------------------------------------------
(* Vocabulary of the properties *)

\* A record is valid when neither selected field is missing
ValidRecord(r) == ~IsNull(r[1]) /\ ~IsNull(r[2])
ValidFrame(frame) == SelectSeq(frame, ValidRecord)

StatsDone == pc \in {"summary", "chunks", "written", "returned", "done", "failed"}
SummaryWritten == summary_sheet # <<>>
MatrixWritten == matrica_sheet # <<>>

Min(a, b) == IF a < b THEN a ELSE b

\* Number of TRUE cells of the Matrica sheet
TrueCells ==
    Cardinality({<<n, j>> \in (DOMAIN matrica_sheet[1].rows) \X (DOMAIN matrica_sheet[1].labels) :
                    matrica_sheet[1].rows[n].cells[j]})

\* Fully built matrix rows held by one structure: the larger of the rows
\* buffered in all_chunks and the rows of matrix_df
RECURSIVE RowsIn(_)
RowsIn(chunks) ==
    IF chunks = <<>> THEN 0
    ELSE Len(chunks[Len(chunks)]) + RowsIn(SubSeq(chunks, 1, Len(chunks) - 1))
RowsHeld ==
    IF RowsIn(all_chunks) > Len(matrix_df) THEN RowsIn(all_chunks) ELSE Len(matrix_df)

----------------------------------------------------------------------------
(* C1 *)

\* C1: in the Matrica sheet the cell at row a, column b, for a in kupci and b
\* in artikli, is TRUE exactly when (a, b) is in pair_set, the set of the
\* deduplicated records, that is exactly when some record of the frame is (a, b).
MatrixPairSetConsistency ==
    MatrixWritten =>
        LET sheet == matrica_sheet[1]
        IN  /\ \A a \in Range(sparse_data.kupci) : \E n \in DOMAIN sheet.rows : sheet.rows[n].label = a
            /\ \A b \in Range(sparse_data.artikli) : \E j \in DOMAIN sheet.labels : sheet.labels[j] = b
            /\ \A n \in DOMAIN sheet.rows : \A j \in DOMAIN sheet.labels :
                   LET a == sheet.rows[n].label
                       b == sheet.labels[j]
                   IN  /\ sheet.rows[n].cells[j] = (<<a, b>> \in pair_set)
                       /\ sheet.rows[n].cells[j] = (\E m \in DOMAIN df : df[m] = <<a, b>>)

\* A written matrix with a TRUE cell and a FALSE cell
MatrixPairSetWitness ==
    /\ MatrixWritten
    /\ \E n \in DOMAIN matrica_sheet[1].rows : \E j, k \in DOMAIN matrica_sheet[1].labels :
           /\ matrica_sheet[1].rows[n].cells[j]
           /\ ~matrica_sheet[1].rows[n].cells[k]

----------------------------------------------------------------------------
(* C2 *)

\* C2: a record with a missing kupac or artikl is excluded entirely: pair_set
\* has no tuple with a missing component, and true_count, the degree counts and
\* both universes are those of the frame without such records.
PartialRecordsExcluded ==
    StatsDone =>
        LET clean == create_sparse_matrix(ValidFrame(df))
        IN  /\ \A p \in pair_set : ~IsNull(p[1]) /\ ~IsNull(p[2])
            /\ sparse_data.true_count = clean.true_count
            /\ sparse_data.kupci = clean.kupci
            /\ sparse_data.artikli = clean.artikli
            /\ kupci_counts = ValueCounts(Column(clean.unique_pairs, 1))
            /\ artikli_counts = ValueCounts(Column(clean.unique_pairs, 2))

----------------------------------------------------------------------------
(* C3 *)

\* C3: the number of TRUE cells of the Matrica sheet equals |pair_set| and the
\* 'TRUE vrijednosti' value (true_count) of the Summary sheet.
TrueCountConservation ==
    MatrixWritten =>
        /\ TrueCells = Cardinality(pair_set)
        /\ TrueCells = summary_sheet[1].data.true_count

----------------------------------------------------------------------------
(* C4 *)

\* C4: when the frame has no valid pair (it is empty, or every record misses a
\* field), the run fails with an error (the claim names it EmptyInputError;
\* any error is accepted here) before any Summary or Matrica row is written,
\* and no download is offered.
EmptyInputRejected ==
    (ValidFrame(df) = <<>>) =>
        /\ ~SummaryWritten
        /\ ~MatrixWritten
        /\ ~download
        /\ pc \notin {"chunks", "written", "returned", "done"}
        /\ (pc = "failed" => error # "")

----------------------------------------------------------------------------
(* C5 *)

\* C5: during the emission of the matrix no structure holds more than
\* chunk_size fully built matrix rows; the whole matrix never exists as one
\* structure.
BoundedRowBuffer == RowsHeld <= chunk_size

----------------------------------------------------------------------------
(* C6 *)

\* C6: the sum of kupci_counts equals the sum of artikli_counts, and both equal
\* |pair_set| (true_count).
DegreeSumInvariant ==
    StatsDone =>
        /\ SumOf(kupci_counts) = SumOf(artikli_counts)
        /\ SumOf(kupci_counts) = Cardinality(pair_set)
        /\ SumOf(kupci_counts) = sparse_data.true_count

----------------------------------------------------------------------------
(* C7 *)

\* C7: whenever a report is produced the fill percentage is between 0 and 100
\* (popunjenost is in hundredths of a percent), the FALSE count is not
\* negative, and the fill is 100 exactly when |pair_set| is the number of cells.
FillRatioBound ==
    SummaryWritten =>
        LET data == summary_sheet[1].data
        IN  /\ 0 <= data.popunjenost
            /\ data.popunjenost <= 100 * 100
            /\ data.true_count <= data.num_kupaca * data.num_artikala
            /\ data.false_count >= 0
            /\ (data.popunjenost = 100 * 100) <=>
                   (Cardinality(pair_set) = data.num_kupaca * data.num_artikala)

----------------------------------------------------------------------------
(* C8 *)

\* str(x), the canonical text of a raw value: the number 1001 and the text
\* "1001" have the same one
Canon(x) == LabelText[x.v]

\* C8: raw values are indexed by their canonical text: in a frame of valid
\* records, two values with the same canonical text are one label of the
\* universe and give one tuple of pair_set.
CanonicalLabels ==
    (StatsDone /\ ValidFrame(df) = df) =>
        /\ \A x, y \in Range(sparse_data.kupci) : Canon(x) = Canon(y) => x = y
        /\ \A x, y \in Range(sparse_data.artikli) : Canon(x) = Canon(y) => x = y
        /\ \A p, q \in {r \in pair_set : ValidRecord(r)} :
               (Canon(p[1]) = Canon(q[1]) /\ Canon(p[2]) = Canon(q[2])) => p = q

----------------------------------------------------------------------------
(* C9 *)

\* Order of two labels by canonical text
LabelBefore(x, y) == x.v < y.v \/ (x.v = y.v /\ Less(x, y))

RankedByDegree(top, counts, size) ==
    /\ Len(top) = Min(TopK, size)
    /\ \A n \in DOMAIN top : top[n][1] \in DOMAIN counts /\ top[n][2] = counts[top[n][1]]
    /\ \A n, m \in DOMAIN top : n < m => top[n][1] # top[m][1] /\ top[n][2] >= top[m][2]
    /\ \A x \in DOMAIN counts :
           (\A n \in DOMAIN top : top[n][1] # x) => \A n \in DOMAIN top : counts[x] <= top[n][2]

----------------------------------------------------------------------------
(* C10 *)

\* x strictly before y at every two positions n < m of a sequence of labels
StrictlySorted(labels) ==
    \A n, m \in DOMAIN labels : n < m => Less(labels[n], labels[m])

\* C10: for every chunk_size the Matrica sheet is the header (kupac_col, then
\* every artikl in sorted order) and exactly one row per kupac, in the sorted
\* order of kupci, none skipped or repeated; the table is that of one single
\* chunk, whatever chunk_size is.
MatrixRowsInOrder ==
    MatrixWritten =>
        LET sheet == matrica_sheet[1]
        IN  /\ sheet.axis = kupac_col
            /\ sheet.labels = sparse_data.artikli
            /\ StrictlySorted(sheet.labels)
            /\ Range(sheet.labels) = {r[2] : r \in Range(df)} \ {NaN}
            /\ Len(sheet.rows) = sparse_data.num_kupaca
            /\ \A n \in DOMAIN sheet.rows :
                   /\ sheet.rows[n].label = sparse_data.kupci[n]
                   /\ DOMAIN sheet.rows[n].cells = DOMAIN sheet.labels
                   /\ \A j \in DOMAIN sheet.labels :
                          sheet.rows[n].cells[j] =
                              (<<sparse_data.kupci[n], sheet.labels[j]>> \in pair_set)
            /\ StrictlySorted([n \in DOMAIN sheet.rows |-> sheet.rows[n].label])
            /\ {sheet.rows[n].label : n \in DOMAIN sheet.rows} = {r[1] : r \in Range(df)} \ {NaN}

\* A matrix written from several chunks, the last one shorter than chunk_size
MatrixRowsWitness ==
    /\ MatrixWritten
    /\ chunk_size > 1
    /\ sparse_data.num_kupaca > chunk_size
    /\ sparse_data.num_kupaca % chunk_size # 0
    /\ Len(matrica_sheet[1].rows) = sparse_data.num_kupaca

====
